---- MODULE Spec2Model ----
(***************************************************************************)
(* Model of the workflow orchestration engine of the MCP business agent:   *)
(* WorkflowManager (src/mcp_business_agent/workflow_manager.py) driving a  *)
(* WorkflowDefinition (src/mcp_business_agent/models.py) against the MCP   *)
(* client.  One execution of one definition is followed from the call of   *)
(* execute_workflow to its return or raise.  Every await of the code is a  *)
(* separate step of the model; the code between two awaits is one step.    *)
(* The registry of definitions (create_workflow) and the MCP client        *)
(* (src/mcp_business_agent/mcp_client.py: call_tool, _rate_limit_check)    *)
(* are followed in specifications of their own.                            *)
(***************************************************************************)
EXTENDS Integers, Sequences, FiniteSets, TLC

(***************************************************************************)
(* Bounds of the model.                                                    *)
(***************************************************************************)
\* Number of steps of the enumerated definitions (ids taken from IdOrder).
MaxSteps == 2
\* Largest max_retries of the enumerated definitions.
MaxRetries == 1
\* Number of concurrent invocations of call_tool.
MaxCallers == 3
\* Largest retry budget of a call_tool invocation.
MaxBudget == 1
\* Last second of the client's clock.
MaxNow == 4
\* Last minute of the execution's clock.
MaxElapsed == 2

\* Executions of one definition that run at the same time.
MaxExecutions == 2

\* Length of a string parameter value.
MaxLen == 4

\* Launches on one WorkflowManager.
MaxLaunches == 2

\* The clock of the registry of executions: ticks of datetime.now() in a
\* second, the ticks and the hours that pass, and the largest
\* max_age_hours passed to a cleanup.
TicksPerSecond == 2
MaxTicks == 2
MaxHours == 1
MaxAgeHours == 1

(***************************************************************************)
(* Program constants.                                                      *)
(***************************************************************************)
\* WorkflowStep.max_retries default, used by the predefined templates.
DefaultMaxRetries == 3
\* WorkflowDefinition.timeout_minutes: its default, used by the templates,
\* and the smallest value the field accepts (ge=1).
DefaultTimeoutMinutes == 30
MinTimeoutMinutes == 1

IdOrder == <<"A", "B", "C", "D", "E", "F">>

\* max_retries is an unconstrained int of WorkflowStep: create_workflow
\* accepts a negative value as it accepts any other.
RetryChoices == (0 - 1) .. MaxRetries

\* What one call of mcp_client.call_tool can do for the engine: return a
\* response with success=True, return a response with success=False, or
\* raise (MCPError and any other exception are handled alike by
\* _execute_step).
CallOutcomes == {"success", "failed_value", "raise"}

Range(f) == {f[i] : i \in DOMAIN f}

Contains(seq, x) == \E i \in DOMAIN seq : seq[i] = x

Count(seq, x) == Cardinality({i \in DOMAIN seq : seq[i] = x})

\* The orders in which a Python set can be iterated.
IterationOrders(S) == {f \in [1 .. Cardinality(S) -> S] : Range(f) = S}

(***************************************************************************)
(* Definitions: WorkflowStep, WorkflowDefinition, the templates.           *)
(***************************************************************************)
WorkflowStep(id, deps, retries) ==
    [step_id |-> id, depends_on |-> deps, max_retries |-> retries]

StepIdsOf(steps) == {steps[i].step_id : i \in DOMAIN steps}

\* {step.step_id: step for step in steps}: a later step replaces an earlier
\* one of the same id.
step_map(steps) ==
    [id \in StepIdsOf(steps) |->
        steps[CHOOSE i \in DOMAIN steps :
                /\ steps[i].step_id = id
                /\ \A j \in DOMAIN steps : steps[j].step_id = id => j <= i]]

RECURSIVE has_circular_dependency(_, _, _, _)
RECURSIVE visit_depends_on(_, _, _, _)
\* The inner function of _check_circular_dependencies.  visited is shared by
\* all calls, so it is returned with the answer; path is restored by the
\* code on every return of False, so it is passed by value.
has_circular_dependency(smap, step_id, visited, path) ==
    IF step_id \in path THEN [found |-> TRUE, visited |-> visited]
    ELSE IF step_id \in visited THEN [found |-> FALSE, visited |-> visited]
    ELSE visit_depends_on(smap,
                          IF step_id \in DOMAIN smap
                             THEN smap[step_id].depends_on ELSE {},
                          visited \cup {step_id}, path \cup {step_id})

visit_depends_on(smap, deps, visited, path) ==
    IF deps = {} THEN [found |-> FALSE, visited |-> visited]
    ELSE LET dep == CHOOSE d \in deps : TRUE
             r == has_circular_dependency(smap, dep, visited, path)
         IN  IF r.found THEN r
             ELSE visit_depends_on(smap, deps \ {dep}, r.visited, path)

RECURSIVE check_from(_, _, _)
check_from(steps, i, visited) ==
    IF i > Len(steps) THEN "ok"
    ELSE IF steps[i].step_id \in visited THEN check_from(steps, i + 1, visited)
    ELSE LET r == has_circular_dependency(step_map(steps), steps[i].step_id,
                                          visited, {})
         IN  IF r.found THEN "WorkflowDependencyError"
             ELSE check_from(steps, i + 1, r.visited)

check_circular_dependencies_first_step_only(steps) ==
    IF has_circular_dependency(step_map(steps), steps[1].step_id, {}, {}).found
       THEN "WorkflowDependencyError"
    ELSE "ok"

\* "ok" or the exception raised.
check_circular_dependencies(steps) == check_from(steps, 1, {})

validate_workflow_definition_without_dependency_check(steps) ==
    IF Cardinality(StepIdsOf(steps)) # Len(steps) THEN "WorkflowError"
    ELSE check_circular_dependencies(steps)

\* "ok" or the exception raised.
validate_workflow_definition(steps) ==
    IF Cardinality(StepIdsOf(steps)) # Len(steps) THEN "WorkflowError"
    ELSE IF \E i \in DOMAIN steps :
              \E dep \in steps[i].depends_on : dep \notin StepIdsOf(steps)
         THEN "WorkflowDependencyError"
    ELSE check_circular_dependencies(steps)

\* WORKFLOW_TEMPLATES["quarterly_analysis"] as _load_predefined_workflows
\* builds it: max_retries and parallel_execution keep their defaults.
QuarterlySteps ==
    << WorkflowStep("fetch_sales_data", {}, DefaultMaxRetries),
       WorkflowStep("analyze_trends", {"fetch_sales_data"}, DefaultMaxRetries),
       WorkflowStep("generate_report", {"analyze_trends"}, DefaultMaxRetries),
       WorkflowStep("email_report", {"generate_report"}, DefaultMaxRetries) >>

quarterly_analysis ==
    [steps |-> QuarterlySteps, parallel_execution |-> FALSE,
     timeout_minutes |-> DefaultTimeoutMinutes]

\* The diamond A->B, A->C, {B,C}->D, every step with the same max_retries.
DiamondSteps(r) ==
    << WorkflowStep("A", {}, r), WorkflowStep("B", {"A"}, r),
       WorkflowStep("C", {"A"}, r), WorkflowStep("D", {"B", "C"}, r) >>

\* Step lists create_workflow is called with: ids IdOrder[1..n] in this
\* order, any depends_on among them, one max_retries of RetryChoices for
\* all steps of a list.
CandidateSteps ==
    UNION {
        {[i \in 1 .. n |-> WorkflowStep(IdOrder[i], deps[i], r)] :
            deps \in [1 .. n -> SUBSET {IdOrder[k] : k \in 1 .. n}],
            r \in RetryChoices}
        : n \in 1 .. MaxSteps}

\* The definitions create_workflow registers (validation passed), in both
\* modes, and the template.
Definitions ==
    {quarterly_analysis}
    \cup {[steps |-> s, parallel_execution |-> p,
            timeout_minutes |-> MinTimeoutMinutes] :
            s \in {c \in CandidateSteps \cup {DiamondSteps(r) : r \in RetryChoices} :
                     validate_workflow_definition(c) = "ok"},
            p \in BOOLEAN}

(***************************************************************************)
(* The registry and the MCP client: values of their idle state.            *)
(***************************************************************************)
\* No call of create_workflow.
NoCreateCall ==
    [workflow_id |-> "none", steps |-> << >>, parallel_execution |-> FALSE,
     timeout_minutes |-> DefaultTimeoutMinutes]

IdSet(k) == {IdOrder[j] : j \in 1 .. k}

\* A step list create_workflow is called with: n steps, of ids that may
\* repeat and depends_on that may name an id that is no step, a step
\* itself or a cycle; max_retries keeps its default.
StepList(n, ids, deps) ==
    [i \in 1 .. n |-> WorkflowStep(ids[i], deps[i], DefaultMaxRetries)]

\* Three steps on the cycle A, B, C, A, in every list order.
CycleSteps ==
    {[i \in 1 .. 3 |->
        WorkflowStep(order[i],
                     {IF order[i] = "A" THEN "C"
                      ELSE IF order[i] = "B" THEN "A" ELSE "B"},
                     DefaultMaxRetries)] :
        order \in IterationOrders({"A", "B", "C"})}

\* The chain A, B, C and the diamond: valid definitions of more steps.
ChainSteps ==
    << WorkflowStep("A", {}, DefaultMaxRetries),
       WorkflowStep("B", {"A"}, DefaultMaxRetries),
       WorkflowStep("C", {"B"}, DefaultMaxRetries) >>

\* Step lists of more than MaxSteps steps that are tried as well.
NamedStepLists ==
    CycleSteps \cup {ChainSteps, DiamondSteps(DefaultMaxRetries)}

\* A call of create_workflow: timeout_minutes and parallel_execution keep
\* their defaults.
CreateCall(steps) ==
    [workflow_id |-> "w1", steps |-> steps, parallel_execution |-> FALSE,
     timeout_minutes |-> DefaultTimeoutMinutes]

\* The registry before the call: the templates, with or without a
\* definition created earlier under the same workflow_id.
Templates == [id \in {"quarterly_analysis"} |-> quarterly_analysis]

Registries ==
    {Templates,
     [id \in {"quarterly_analysis", "w1"} |->
        IF id = "w1"
           THEN [steps |-> ChainSteps, parallel_execution |-> FALSE,
                 timeout_minutes |-> DefaultTimeoutMinutes]
        ELSE quarterly_analysis]}

\* Ids execute_workflow is called with.
WorkflowIds == {"w1", "w2"}

\* execute_workflow has not looked a definition up.
NoLookup == [outcome |-> "none", steps |-> << >>]

\* MCPClient.__init__: the default of retry_count.
DefaultRetryCount == 3

\* The clients are built with rate_limit_per_second=1, so that min_interval
\* of _rate_limit_check is one second, the unit of now.
rate_limit_per_second == 1

min_interval == 1 \div rate_limit_per_second

\* Concurrent invocations of call_tool on the one client.
Callers == 1 .. MaxCallers

\* An Optional[int] is a sequence of at most one int: << >> is None.
None == << >>

Some(n) == <<n>>

\* A call_tool that has not been invoked.  retry_attempts and attempt are
\* its locals; requests counts its posts, sleeps its backoff sleeps;
\* response is the last answer it got, answers all the answers it got and
\* result what it returned or raised.
IdleCall ==
    [pc |-> "idle", arg |-> None, retry_attempts |-> 0, attempt |-> 0,
     requests |-> 0, sleeps |-> 0, response |-> "none", answers |-> {},
     result |-> "none", wake |-> 0]

\* The retry_count argument of call_tool: omitted, or any int.
ArgChoices == {None} \cup {Some(n) : n \in (0 - 1) .. MaxBudget}

\* What the server, or the transport, answers to one request:
\*   ok                    200 with a JSON-RPC result
\*   rpc_method_not_found  200 with a JSON-RPC error object, code -32601
\*   rpc_error             200 with another JSON-RPC error object
\*   http_401, http_429, http_5xx
\*   http_4xx              another 4xx whose body is a JSON object or no JSON
\*   http_4xx_not_object   another 4xx whose body is JSON but not an object
\*   timeout               httpx.TimeoutException
\*   connect_error         httpx.ConnectError
\*   exception             any other exception of post or of response.json()
Responses ==
    {"ok", "rpc_method_not_found", "rpc_error", "http_401", "http_429",
     "http_5xx", "http_4xx", "http_4xx_not_object", "timeout",
     "connect_error", "exception"}

RECURSIVE Pow2(_)
Pow2(n) == IF n <= 0 THEN 1 ELSE 2 * Pow2(n - 1)

Min(a, b) == IF a <= b THEN a ELSE b

\* The caps of the exponential backoff, in seconds.
RateLimitBackoffCap == 60
BackoffCap == 30

\* MCPRequestMetrics() as created by __init__.
ZeroMetrics ==
    [total_requests |-> 0, successful_requests |-> 0, failed_requests |-> 0,
     timeout_requests |-> 0, retry_requests |-> 0, rate_limit_hits |-> 0]

(***************************************************************************)
(* State.                                                                  *)
(***************************************************************************)
VARIABLES
    wf,                   \* the WorkflowDefinition being executed
    pc,                   \* position of execute_workflow
    exc,                  \* exception execute_workflow raised, or "none"
    status,               \* execution.status
    current_step,         \* execution.current_step
    completed_steps,      \* execution.completed_steps
    failed_steps,         \* execution.failed_steps
    errors,               \* execution.errors
    progress_percentage,  \* execution.progress_percentage, as num/den
    remaining_steps,      \* remaining_steps of the running loop
    running_tasks,        \* keys of running_tasks (parallel mode)
    task,                 \* position of each step's _execute_step
    attempt,              \* loop variable of _execute_step, per step
    step_status,          \* step.status of the execution's copy
    retry_count,          \* step.retry_count of the execution's copy
    tool_calls,           \* number of calls of _call_mcp_tool, per step
    history,              \* outcomes of the finished tool calls, per step
    elapsed,              \* minutes since execution.started_at
    workflow_definitions, \* WorkflowManager.workflow_definitions
    create_call,          \* arguments of the call of create_workflow
    create_result,        \* "pending", "ok" or the exception it raised
    workflow_def,         \* what execute_workflow found for a workflow_id
    client_retry_count,   \* MCPClient.retry_count
    call,                 \* the invocations of MCPClient.call_tool
    metrics,              \* MCPClient.metrics
    now,                  \* time.time(), in seconds
    last_request_time,    \* MCPClient._last_request_time
    send_times,           \* time of every request posted to the server
    permissions,          \* MCPAgentDependencies.permissions
    tool_run,             \* the last run of an agent tool
    active_workflows,     \* WorkflowManager.active_workflows
    wall,                 \* datetime.now(), in ticks
    launched,             \* number of launches so far
    last_op,              \* the last operation on active_workflows
    step_heap,            \* the WorkflowStep objects, by address
    dict_heap,            \* the parameters dicts, by address
    list_heap,            \* the depends_on lists, by address
    definition_steps,     \* workflow_def.steps: addresses of its steps
    execution_steps,      \* steps of each execute_workflow: addresses
    runtime_parameters,   \* parameters of each execute_workflow
    tool_parameters       \* parameters each step's tool call was given

\* The state of one execution.
engine == <<wf, pc, exc, status, current_step, completed_steps, failed_steps,
            errors, progress_percentage, remaining_steps, running_tasks, task,
            attempt, step_status, retry_count, tool_calls, history>>

\* The state of the registry of definitions.
registry == <<workflow_definitions, create_call, create_result, workflow_def>>

\* The state of the MCP client.
client == <<client_retry_count, call, metrics, now, last_request_time,
            send_times>>

\* The state around the tools of the agent.
agent == <<permissions, tool_run>>

\* The state of the registry of executions.
store == <<active_workflows, wall, launched, last_op>>

\* The objects of a definition and of its executions.
heap == <<step_heap, dict_heap, list_heap, definition_steps, execution_steps,
          runtime_parameters, tool_parameters>>

\* What the steps of an execution leave alone.
others == <<elapsed, registry, client, agent, store, heap>>

vars == <<engine, others>>

Steps == wf.steps
Ids == StepIdsOf(Steps)
StepOf(id) == step_map(Steps)[id]

Percentage(count, total) == [num |-> count * 100, den |-> total]

\* The WorkflowExecution execute_workflow creates.
NewExecution ==
    /\ pc = "start"
    /\ exc = "none"
    /\ status = "pending"
    /\ current_step = "None"
    /\ completed_steps = << >>
    /\ failed_steps = << >>
    /\ errors = [s \in {} |-> "none"]
    /\ progress_percentage = Percentage(0, 1)
    /\ remaining_steps = {}
    /\ running_tasks = {}
    /\ task = [s \in Ids |-> "none"]
    /\ attempt = [s \in Ids |-> 0]
    /\ step_status = [s \in Ids |-> "pending"]
    /\ retry_count = [s \in Ids |-> 0]
    /\ tool_calls = [s \in Ids |-> 0]
    /\ history = [s \in Ids |-> << >>]

EngineInit ==
    /\ wf \in Definitions
    /\ NewExecution

\* No execution is followed: the template is at its start.
EngineIdle ==
    /\ wf = quarterly_analysis
    /\ NewExecution

\* WorkflowManager.__init__: the templates are the registered definitions.
RegistryIdle ==
    /\ workflow_definitions = Templates
    /\ create_call = NoCreateCall
    /\ create_result = "none"
    /\ workflow_def = NoLookup

\* MCPClient.__init__ with its defaults, no call_tool invoked.  time.time()
\* is far from the 0.0 _last_request_time starts with: now starts one
\* min_interval after it.
ClientIdle ==
    /\ client_retry_count = DefaultRetryCount
    /\ call = [c \in Callers |-> IdleCall]
    /\ metrics = ZeroMetrics
    /\ now = min_interval
    /\ last_request_time = 0
    /\ send_times = << >>

\* No agent tool has run; the session has no permissions object.
NoToolRun == [tool |-> "none", confirm |-> FALSE, remote |-> "none"]

AgentIdle ==
    /\ permissions = None
    /\ tool_run = NoToolRun

\* The last operation on active_workflows: its name, the execution id it
\* was about and the max_age_hours of a cleanup.
NoId == [prefix |-> "none", n |-> 0]
Op(name, id, hours) == [op |-> name, execution_id |-> id, max_age_hours |-> hours]

\* WorkflowManager.__init__: active_workflows is empty.
StoreIdle ==
    /\ active_workflows = << >>
    /\ wall = 0
    /\ launched = 0
    /\ last_op = Op("none", NoId, 0)

\* The callers of execute_workflow that may run at the same time.
Executions == 1 .. MaxExecutions

\* Nothing is allocated.
HeapIdle ==
    /\ step_heap = << >>
    /\ dict_heap = << >>
    /\ list_heap = << >>
    /\ definition_steps = << >>
    /\ execution_steps = [e \in Executions |-> << >>]
    /\ runtime_parameters = [e \in Executions |-> << >>]
    /\ tool_parameters = [e \in Executions |-> << >>]

Init ==
    /\ EngineInit
    /\ elapsed = 0
    /\ RegistryIdle
    /\ ClientIdle
    /\ AgentIdle
    /\ StoreIdle
    /\ HeapIdle

(***************************************************************************)
(* Pieces of execute_workflow and _execute_step shared by the actions.     *)
(***************************************************************************)
ReadyAnyDependency ==
    {s \in remaining_steps :
        \/ StepOf(s).depends_on = {}
        \/ \E dep \in StepOf(s).depends_on : Contains(completed_steps, dep)}

\* Steps of remaining_steps all of whose dependencies are in
\* execution.completed_steps.
Ready ==
    {s \in remaining_steps :
        \A dep \in StepOf(s).depends_on : Contains(completed_steps, dep)}

\* _execute_step up to its first await: current_step and step.status are
\* set, then the loop over range(max_retries + 1) starts; an empty range
\* ends the coroutine at once, otherwise the tool is called.
BeginStep(s) ==
    /\ current_step' = s
    /\ step_status' = [step_status EXCEPT ![s] = "running"]
    /\ attempt' = [attempt EXCEPT ![s] = 0]
    /\ IF StepOf(s).max_retries + 1 <= 0
          THEN /\ task' = [task EXCEPT ![s] = "returned"]
               /\ UNCHANGED tool_calls
          ELSE /\ task' = [task EXCEPT ![s] = "calling"]
               /\ tool_calls' = [tool_calls EXCEPT ![s] = @ + 1]

\* "if attempt < step.max_retries": another attempt follows the failed one.
RetriesLeftOffByOne(s) == attempt[s] + 1 < StepOf(s).max_retries

RetriesLeft(s) == attempt[s] < StepOf(s).max_retries

\* "Determine final status" and the return of execute_workflow.
FinalStatus ==
    IF \A i \in DOMAIN Steps : Contains(completed_steps, Steps[i].step_id)
       THEN "completed"
    ELSE IF failed_steps # << >> THEN "partially_completed"
    ELSE "failed"

ReturnExecution ==
    /\ status' = FinalStatus
    /\ progress_percentage' = Percentage(1, 1)
    /\ pc' = "returned"
    /\ exc' = "none"

\* "except Exception": the execution is marked failed and WorkflowError is
\* raised to the caller.
RaiseWorkflowError ==
    /\ status' = "failed"
    /\ pc' = "raised"
    /\ exc' = "WorkflowError"

\* "Update progress" of both loops.
UpdateProgress ==
    progress_percentage' =
        Percentage(Len(completed_steps) + Len(failed_steps), Len(Steps))

(***************************************************************************)
(* Actions.                                                                *)
(***************************************************************************)
\* execute_workflow up to the call of the sequential or parallel loop.
Start ==
    /\ pc = "start"
    /\ status' = "in_progress"
    /\ remaining_steps' = Ids
    /\ pc' = IF wf.parallel_execution THEN "par_loop" ELSE "seq_loop"
    /\ UNCHANGED <<wf, exc, current_step, completed_steps, failed_steps,
                   errors, progress_percentage, running_tasks, task, attempt,
                   step_status, retry_count, tool_calls, history>>
    /\ UNCHANGED others

\* One turn of the loop of _execute_sequential_workflow, up to the await of
\* _execute_step; the end of the loop returns from execute_workflow.
\* ready_steps is built by iterating a set, so ready_steps[0] is any ready
\* step.
SeqLoop ==
    /\ pc = "seq_loop"
    /\ IF remaining_steps = {}
          THEN /\ ReturnExecution
               /\ UNCHANGED <<current_step, failed_steps, remaining_steps,
                              task, attempt, step_status, tool_calls>>
       ELSE IF Ready = {}
          THEN LET failed_deps ==
                     {s \in remaining_steps :
                         \E dep \in StepOf(s).depends_on :
                             Contains(failed_steps, dep)}
               IN  IF failed_deps # {}
                      THEN /\ \E order \in IterationOrders(failed_deps) :
                                 failed_steps' = failed_steps \o order
                           /\ remaining_steps' = remaining_steps \ failed_deps
                           /\ UNCHANGED <<pc, exc, status, current_step,
                                          progress_percentage, task, attempt,
                                          step_status, tool_calls>>
                      ELSE /\ RaiseWorkflowError
                           /\ UNCHANGED <<current_step, failed_steps,
                                          progress_percentage,
                                          remaining_steps, task, attempt,
                                          step_status, tool_calls>>
       ELSE /\ \E s \in Ready : BeginStep(s)
            /\ pc' = "seq_step"
            /\ UNCHANGED <<exc, status, failed_steps, progress_percentage,
                           remaining_steps>>
    /\ UNCHANGED <<wf, completed_steps, errors, running_tasks, retry_count,
                   history>>
    /\ UNCHANGED others

SeqResumeStepNotRemoved ==
    /\ pc = "seq_step"
    /\ task[current_step] \in {"returned", "raised"}
    /\ IF task[current_step] = "returned"
          THEN /\ UpdateProgress
               /\ pc' = "seq_loop"
               /\ UNCHANGED <<exc, status, remaining_steps>>
          ELSE /\ RaiseWorkflowError
               /\ UNCHANGED <<remaining_steps, progress_percentage>>
    /\ UNCHANGED <<wf, current_step, completed_steps, failed_steps, errors,
                   running_tasks, task, attempt, step_status, retry_count,
                   tool_calls, history>>
    /\ UNCHANGED others

\* The awaited _execute_step has ended: the loop goes on, or the
\* WorkflowStepError it raised leaves the loop and reaches the handler of
\* execute_workflow.
SeqResume ==
    /\ pc = "seq_step"
    /\ task[current_step] \in {"returned", "raised"}
    /\ IF task[current_step] = "returned"
          THEN /\ remaining_steps' = remaining_steps \ {current_step}
               /\ UpdateProgress
               /\ pc' = "seq_loop"
               /\ UNCHANGED <<exc, status>>
          ELSE /\ RaiseWorkflowError
               /\ UNCHANGED <<remaining_steps, progress_percentage>>
    /\ UNCHANGED <<wf, current_step, completed_steps, failed_steps, errors,
                   running_tasks, task, attempt, step_status, retry_count,
                   tool_calls, history>>
    /\ UNCHANGED others

\* One turn of the loop of _execute_parallel_workflow up to
\* "if running_tasks": a task is created for every ready step; the end of
\* the loop returns from execute_workflow.
ParLoop ==
    /\ pc = "par_loop"
    /\ IF remaining_steps = {} /\ running_tasks = {}
          THEN /\ ReturnExecution
               /\ UNCHANGED <<remaining_steps, running_tasks, task>>
          ELSE /\ running_tasks' = running_tasks \cup Ready
               /\ remaining_steps' = remaining_steps \ Ready
               /\ task' = [s \in Ids |->
                             IF s \in Ready THEN "created" ELSE task[s]]
               /\ pc' = "par_wait"
               /\ UNCHANGED <<exc, status, progress_percentage>>
    /\ UNCHANGED <<wf, current_step, completed_steps, failed_steps, errors,
                   attempt, step_status, retry_count, tool_calls, history>>
    /\ UNCHANGED others

\* "if running_tasks": asyncio.wait returns once a task is done, every done
\* task is removed and awaited (its exception is caught and logged), and
\* progress is updated.  With no running task the body is skipped and the
\* loop condition is tested again.
ParWait ==
    /\ pc = "par_wait"
    /\ LET done == {s \in running_tasks : task[s] \in {"returned", "raised"}}
       IN  IF running_tasks = {}
              THEN UNCHANGED <<running_tasks, progress_percentage>>
              ELSE /\ done # {}
                   /\ running_tasks' = running_tasks \ done
                   /\ UpdateProgress
    /\ pc' = "par_loop"
    /\ UNCHANGED <<wf, exc, status, current_step, completed_steps,
                   failed_steps, errors, remaining_steps, task, attempt,
                   step_status, retry_count, tool_calls, history>>
    /\ UNCHANGED others

\* The event loop runs a created task for the first time.
TaskStart(s) ==
    /\ task[s] = "created"
    /\ BeginStep(s)
    /\ UNCHANGED <<wf, pc, exc, status, completed_steps, failed_steps, errors,
                   progress_percentage, remaining_steps, running_tasks,
                   retry_count, history>>
    /\ UNCHANGED others

ToolReturnsErrorNotRecorded(s, o) ==
    /\ task[s] = "calling"
    /\ history' = [history EXCEPT ![s] = Append(@, o)]
    /\ IF o # "raise"
          THEN /\ step_status' = [step_status EXCEPT ![s] = "completed"]
               /\ completed_steps' = Append(completed_steps, s)
               /\ task' = [task EXCEPT ![s] = "returned"]
               /\ UNCHANGED <<retry_count, failed_steps, errors>>
          ELSE /\ retry_count' = [retry_count EXCEPT ![s] = attempt[s]]
               /\ IF RetriesLeft(s)
                     THEN /\ task' = [task EXCEPT ![s] = "sleeping"]
                          /\ UNCHANGED <<step_status, failed_steps, errors>>
                     ELSE /\ step_status' = [step_status EXCEPT ![s] = "failed"]
                          /\ failed_steps' = Append(failed_steps, s)
                          /\ task' = [task EXCEPT ![s] = "raised"]
                          /\ UNCHANGED errors
               /\ UNCHANGED completed_steps
    /\ UNCHANGED <<wf, pc, exc, status, current_step, progress_percentage,
                   remaining_steps, running_tasks, attempt, tool_calls>>
    /\ UNCHANGED others

\* The awaited _call_mcp_tool of step s ends with outcome o: the rest of
\* the attempt, up to the next await or the end of _execute_step.
ToolReturns(s, o) ==
    /\ task[s] = "calling"
    /\ history' = [history EXCEPT ![s] = Append(@, o)]
    /\ IF o # "raise"
          THEN /\ step_status' = [step_status EXCEPT ![s] = "completed"]
               /\ completed_steps' = Append(completed_steps, s)
               /\ task' = [task EXCEPT ![s] = "returned"]
               /\ UNCHANGED <<retry_count, failed_steps, errors>>
          ELSE /\ retry_count' = [retry_count EXCEPT ![s] = attempt[s]]
               /\ IF RetriesLeft(s)
                     THEN /\ task' = [task EXCEPT ![s] = "sleeping"]
                          /\ UNCHANGED <<step_status, failed_steps, errors>>
                     ELSE /\ step_status' = [step_status EXCEPT ![s] = "failed"]
                          /\ failed_steps' = Append(failed_steps, s)
                          /\ errors' = [x \in DOMAIN errors \cup {s} |->
                                          IF x = s THEN "tool_error"
                                          ELSE errors[x]]
                          /\ task' = [task EXCEPT ![s] = "raised"]
               /\ UNCHANGED completed_steps
    /\ UNCHANGED <<wf, pc, exc, status, current_step, progress_percentage,
                   remaining_steps, running_tasks, attempt, tool_calls>>
    /\ UNCHANGED others

\* The backoff sleep of step s ends: the next attempt calls the tool.
SleepDone(s) ==
    /\ task[s] = "sleeping"
    /\ attempt' = [attempt EXCEPT ![s] = @ + 1]
    /\ task' = [task EXCEPT ![s] = "calling"]
    /\ tool_calls' = [tool_calls EXCEPT ![s] = @ + 1]
    /\ UNCHANGED <<wf, pc, exc, status, current_step, completed_steps,
                   failed_steps, errors, progress_percentage, remaining_steps,
                   running_tasks, step_status, retry_count, history>>
    /\ UNCHANGED others

Next ==
    \/ Start
    \/ SeqLoop
    \/ SeqResume
    \/ ParLoop
    \/ ParWait
    \/ \E s \in Ids : TaskStart(s)
    \/ \E s \in Ids : \E o \in CallOutcomes : ToolReturns(s, o)
    \/ \E s \in Ids : SleepDone(s)

Spec == Init /\ [][Next]_vars

\* The event loop runs whatever is ready, every tool call ends and every
\* sleep ends.
FairSpec == Spec /\ WF_vars(Next)

\* The executions of the definitions whose max_retries is not negative.
InitRetriesNonNegative ==
    /\ Init
    /\ \A i \in DOMAIN wf.steps : wf.steps[i].max_retries >= 0

SpecRetriesNonNegative == InitRetriesNonNegative /\ [][Next]_vars

FairSpecRetriesNonNegative == SpecRetriesNonNegative /\ WF_vars(Next)

(***************************************************************************)
(* Cancellation.                                                           *)
(***************************************************************************)
\* cancel_workflow(execution_id) returning True: the execution is in
\* active_workflows, where execute_workflow puts it before its first step
\* and leaves it when it has finished.
cancel_workflow ==
    /\ pc # "start"
    /\ status' = "cancelled"
    /\ UNCHANGED <<wf, pc, exc, current_step, completed_steps, failed_steps,
                   errors, progress_percentage, remaining_steps, running_tasks,
                   task, attempt, step_status, retry_count, tool_calls,
                   history>>
    /\ UNCHANGED others

NextCancel ==
    \/ Next
    \/ cancel_workflow

\* An execution that a caller may cancel at any moment.
SpecCancel == InitRetriesNonNegative /\ [][NextCancel]_vars

(***************************************************************************)
(* Time of an execution.                                                   *)
(***************************************************************************)
\* A minute passes while execute_workflow is running: its awaits (the tool
\* calls and the backoff sleeps) take any time, and nothing in
\* execute_workflow, the two loops or _execute_step reads timeout_minutes
\* or started_at, or bounds an await with a timer.
Tick ==
    /\ ~(pc \in {"start", "returned", "raised"})
    /\ \E s \in Ids : task[s] \in {"calling", "sleeping"}
    /\ elapsed < MaxElapsed
    /\ elapsed' = elapsed + 1
    /\ UNCHANGED <<engine, registry, client,
                   agent, store, heap>>

NextClock ==
    \/ Next
    \/ Tick

\* An execution whose awaits take time.
SpecClock == InitRetriesNonNegative /\ [][NextClock]_vars

(***************************************************************************)
(* The registry of definitions.                                            *)
(***************************************************************************)
\* One call of create_workflow: the steps are validated, which may raise;
\* after that the definition is stored under its workflow_id, replacing a
\* definition of the same id.
create_workflow ==
    /\ create_result = "pending"
    /\ create_result' = validate_workflow_definition(create_call.steps)
    /\ workflow_definitions' =
          IF create_result' = "ok"
             THEN [id \in DOMAIN workflow_definitions
                            \cup {create_call.workflow_id} |->
                     IF id = create_call.workflow_id
                        THEN [steps |-> create_call.steps,
                              parallel_execution |->
                                  create_call.parallel_execution,
                              timeout_minutes |-> create_call.timeout_minutes]
                     ELSE workflow_definitions[id]]
          ELSE workflow_definitions
    /\ UNCHANGED <<create_call, workflow_def, engine, elapsed, client,
                   agent, store, heap>>

\* The first lines of execute_workflow: an id that is not registered
\* raises WorkflowError, a registered definition is handed to the loops.
execute_workflow(workflow_id) ==
    /\ workflow_def = NoLookup
    /\ workflow_def' =
          IF workflow_id \in DOMAIN workflow_definitions
             THEN [outcome |-> "found",
                   steps |-> workflow_definitions[workflow_id].steps]
          ELSE [outcome |-> "WorkflowError", steps |-> << >>]
    /\ UNCHANGED <<workflow_definitions, create_call, create_result, engine,
                   elapsed, client,
                   agent, store, heap>>

RegistryInit ==
    /\ workflow_definitions \in Registries
    /\ \/ \E n \in 1 .. MaxSteps :
             \E ids \in [1 .. n -> IdSet(n)] :
                \E deps \in [1 .. n -> SUBSET IdSet(n + 1)] :
                    create_call = CreateCall(StepList(n, ids, deps))
       \/ \E steps \in NamedStepLists : create_call = CreateCall(steps)
    /\ create_result = "pending"
    /\ workflow_def = NoLookup
    /\ EngineIdle
    /\ elapsed = 0
    /\ ClientIdle
    /\ AgentIdle
    /\ StoreIdle
    /\ HeapIdle

RegistryNext ==
    \/ create_workflow
    \/ \E workflow_id \in WorkflowIds : execute_workflow(workflow_id)

RegistrySpec == RegistryInit /\ [][RegistryNext]_vars

(***************************************************************************)
(* The MCP client: call_tool and _rate_limit_check.                        *)
(***************************************************************************)
\* "retry_count or self.retry_count": None and 0 are both falsy.
retry_attempts_of(arg) ==
    IF arg = None \/ arg[1] = 0 THEN client_retry_count ELSE arg[1]

\* call_tool of c returns an MCPResponse of the given status.
Return(c, st, n) ==
    call' = [call EXCEPT ![c].pc = "returned", ![c].result = st,
                         ![c].response = n, ![c].answers = @ \cup {n}]

\* call_tool of c raises e to its caller.
Raise(c, e, n) ==
    call' = [call EXCEPT ![c].pc = "raised", ![c].result = e,
                         ![c].response = n, ![c].answers = @ \cup {n}]

\* "if attempt < retry_attempts: await asyncio.sleep(wait_time); continue
\* else: raise": the shape of every retrying branch.
RetryOrRaise(c, cap, e, n) ==
    IF call[c].attempt < call[c].retry_attempts
       THEN call' = [call EXCEPT ![c].pc = "backoff",
                                 ![c].sleeps = @ + 1,
                                 ![c].response = n,
                                 ![c].answers = @ \cup {n},
                                 ![c].wake =
                                     now + Min(Pow2(call[c].attempt), cap)]
    ELSE Raise(c, e, n)

\* _rate_limit_check up to its await, and, when it does not sleep, the
\* post that follows it: attempt number a of call_tool of c begins.
BeginAttempt(c, cl) ==
    IF now - last_request_time < min_interval
       THEN /\ call' = [call EXCEPT ![c] =
                          [cl EXCEPT !.pc = "rate_sleep",
                                     !.wake = now + (min_interval
                                                 - (now - last_request_time))]]
            /\ UNCHANGED <<last_request_time, send_times>>
    ELSE /\ call' = [call EXCEPT ![c] =
                       [cl EXCEPT !.pc = "posting", !.requests = @ + 1]]
         /\ last_request_time' = now
         /\ send_times' = Append(send_times, now)

\* call_tool(tool_name, params, retry_count=arg) is invoked: the code up to
\* the first await.  An empty range(retry_attempts + 1) falls through the
\* loop to "all retries failed".  Callers are numbered in the order of
\* their invocation.
call_tool(c, arg) ==
    /\ call[c].pc = "idle"
    /\ \A d \in Callers : d < c => call[d].pc # "idle"
    /\ LET budget == retry_attempts_of(arg)
           cl == [call[c] EXCEPT !.arg = arg, !.retry_attempts = budget,
                                 !.attempt = 0]
       IN  IF budget + 1 <= 0
              THEN /\ call' = [call EXCEPT ![c] =
                                 [cl EXCEPT !.pc = "raised",
                                            !.result = "MCPToolError"]]
                   /\ metrics' = [metrics EXCEPT
                                     !.total_requests = @ + 1,
                                     !.failed_requests = @ + 1]
                   /\ UNCHANGED <<last_request_time, send_times>>
              ELSE /\ BeginAttempt(c, cl)
                   /\ metrics' = [metrics EXCEPT !.total_requests = @ + 1]
    /\ UNCHANGED <<client_retry_count, now, engine, elapsed, registry,
                   agent, store, heap>>

\* The sleep of _rate_limit_check ends, not before its time:
\* _last_request_time is set and the request is posted.
RateSleepDone(c) ==
    /\ call[c].pc = "rate_sleep"
    /\ now >= call[c].wake
    /\ call' = [call EXCEPT ![c].pc = "posting", ![c].requests = @ + 1,
                            ![c].wake = 0]
    /\ last_request_time' = now
    /\ send_times' = Append(send_times, now)
    /\ UNCHANGED <<client_retry_count, metrics, now, engine, elapsed,
                   registry,
                   agent, store, heap>>

\* The awaited post of c ends with answer n: the rest of the attempt, up
\* to the return, the raise or the backoff sleep.  An exception raised
\* inside the try block, MCPAuthError, MCPRateLimitError and MCPServerError
\* included, is caught by "except Exception" of the same try.
Responds(c, n) ==
    /\ call[c].pc = "posting"
    /\ CASE n = "ok" ->
             /\ Return(c, "SUCCESS", n)
             /\ metrics' = [metrics EXCEPT !.successful_requests = @ + 1]
         [] n \in {"rpc_method_not_found", "rpc_error", "http_4xx"} ->
             /\ Return(c, "FAILED", n)
             /\ metrics' = [metrics EXCEPT !.failed_requests = @ + 1]
         [] n = "http_401" ->
             /\ RetryOrRaise(c, BackoffCap, "MCPToolError", n)
             /\ metrics' = [metrics EXCEPT !.failed_requests = @ + 1]
         [] n = "http_429" ->
             /\ RetryOrRaise(c, RateLimitBackoffCap, "MCPToolError", n)
             /\ metrics' = [metrics EXCEPT !.rate_limit_hits = @ + 1]
         [] n = "http_5xx" ->
             /\ RetryOrRaise(c, BackoffCap, "MCPToolError", n)
             /\ UNCHANGED metrics
         [] n = "http_4xx_not_object" ->
             /\ RetryOrRaise(c, BackoffCap, "MCPToolError", n)
             /\ UNCHANGED metrics
         [] n = "timeout" ->
             /\ RetryOrRaise(c, BackoffCap, "MCPTimeoutError", n)
             /\ metrics' = [metrics EXCEPT !.timeout_requests = @ + 1]
         [] n = "connect_error" ->
             /\ RetryOrRaise(c, BackoffCap, "MCPError", n)
             /\ UNCHANGED metrics
         [] n = "exception" ->
             /\ RetryOrRaise(c, BackoffCap, "MCPToolError", n)
             /\ UNCHANGED metrics
    /\ UNCHANGED <<client_retry_count, now, last_request_time, send_times,
                   engine, elapsed, registry,
                   agent, store, heap>>

\* The backoff sleep of c ends, not before its time: the loop goes to its
\* next attempt.
BackoffDone(c) ==
    /\ call[c].pc = "backoff"
    /\ now >= call[c].wake
    /\ BeginAttempt(c, [call[c] EXCEPT !.attempt = @ + 1, !.wake = 0])
    /\ UNCHANGED <<client_retry_count, metrics, now, engine, elapsed,
                   registry,
                   agent, store, heap>>

\* A second passes.
TimePasses ==
    /\ now < MaxNow
    /\ now' = now + 1
    /\ UNCHANGED <<client_retry_count, call, metrics, last_request_time,
                   send_times, engine, elapsed, registry,
                   agent, store, heap>>

\* MCPClient(..., retry_count=n) entered as a context manager.
ClientInit ==
    /\ client_retry_count \in 0 .. MaxBudget
    /\ call = [c \in Callers |-> IdleCall]
    /\ metrics = ZeroMetrics
    /\ now = min_interval
    /\ last_request_time = 0
    /\ send_times = << >>
    /\ EngineIdle
    /\ elapsed = 0
    /\ RegistryIdle
    /\ AgentIdle
    /\ StoreIdle
    /\ HeapIdle

\* call_tool of every caller before c has returned or raised.
BackToBack(c) ==
    \A d \in Callers : d < c => call[d].pc \in {"returned", "raised"}

\* Invocations of call_tool made one after the other, with any retry_count
\* argument and any answer to each request.
ClientNext ==
    \/ \E c \in Callers : \E arg \in ArgChoices :
          BackToBack(c) /\ call_tool(c, arg)
    \/ \E c \in Callers : RateSleepDone(c)
    \/ \E c \in Callers : \E n \in Responses : Responds(c, n)
    \/ \E c \in Callers : BackoffDone(c)
    \/ TimePasses

ClientSpec == ClientInit /\ [][ClientNext]_vars

\* The answers of a server that is up, or down for a while.
ConcurrentResponses == {"ok", "http_5xx"}

\* Invocations of call_tool that overlap, as made by the tasks of the
\* parallel steps of a workflow (retry_count is not passed).
ConcurrentNext ==
    \/ \E c \in Callers : call_tool(c, None)
    \/ \E c \in Callers : RateSleepDone(c)
    \/ \E c \in Callers : \E n \in ConcurrentResponses : Responds(c, n)
    \/ \E c \in Callers : BackoffDone(c)
    \/ TimePasses

ConcurrentSpec == ClientInit /\ [][ConcurrentNext]_vars

(***************************************************************************)
(* The gated tools of the agent.                                           *)
(***************************************************************************)
\* UserPermissions: the five flags and allowed_email_domains.
EmailDomains == {<< >>, <<"example.com">>}

UserPermissions ==
    [can_read_database : BOOLEAN, can_write_database : BOOLEAN,
     can_send_email : BOOLEAN, can_scrape_web : BOOLEAN,
     can_execute_workflows : BOOLEAN, allowed_email_domains : EmailDomains]

\* re.match(email_pattern, to) for the recipients tried, and the domain of
\* a recipient that matches.
Recipients == {"not-an-address", "a@example.com", "a@other.org"}
matches_email_pattern(to) == to # "not-an-address"
to_domain(to) == IF to = "a@example.com" THEN "@example.com" ELSE "@other.org"
domain_endswith(dom, allowed) == dom = "@example.com" /\ allowed = "example.com"

has_permission_without_object_allows(permission) ==
    IF permissions = None THEN TRUE ELSE permissions[1][permission]

\* MCPAgentDependencies.has_permission.
has_permission(permission) ==
    IF permissions = None THEN FALSE ELSE permissions[1][permission]

\* The tool has run: what it was, its confirm argument and the remote tool
\* it invoked through mcp_client.call_tool, "none" for an early return.
ToolRan(tool, confirm, remote) ==
    /\ tool_run' = [tool |-> tool, confirm |-> confirm, remote |-> remote]
    /\ UNCHANGED <<permissions, engine, elapsed, registry, client, store,
                   heap>>

execute_database(confirm) ==
    ToolRan("execute_database", confirm,
            IF ~has_permission("can_write_database") THEN "none"
            ELSE IF ~confirm THEN "none"
            ELSE "executeDatabase")

\* copies_match: cc and bcc are absent or match the pattern.
send_email(to, copies_match, confirm) ==
    ToolRan("send_email", confirm,
            IF ~has_permission("can_send_email") THEN "none"
            ELSE IF ~matches_email_pattern(to) THEN "none"
            ELSE IF ~copies_match THEN "none"
            ELSE IF /\ permissions # None
                    /\ permissions[1].allowed_email_domains # << >>
                    /\ ~\E i \in DOMAIN permissions[1].allowed_email_domains :
                          domain_endswith(to_domain(to),
                              permissions[1].allowed_email_domains[i])
                 THEN "none"
            ELSE IF ~confirm THEN "none"
            ELSE "sendEmail")

scrape_page ==
    ToolRan("scrape_page", FALSE,
            IF ~has_permission("can_scrape_web") THEN "none"
            ELSE "scrapePage")

search_web ==
    ToolRan("search_web", FALSE,
            IF ~has_permission("can_scrape_web") THEN "none"
            ELSE "searchWeb")

crawl_website ==
    ToolRan("crawl_website", FALSE,
            IF ~has_permission("can_scrape_web") THEN "none"
            ELSE "crawlWebsite")

\* The steps of the template are run by a WorkflowManager on the session's
\* mcp_client: "workflow steps" stands for their remote invocations.
execute_workflow_template(template_name) ==
    ToolRan("execute_workflow_template", FALSE,
            IF ~has_permission("can_execute_workflows") THEN "none"
            ELSE IF template_name \notin DOMAIN Templates THEN "none"
            ELSE "workflow steps")

\* A session with any permissions object, or none.
AgentInit ==
    /\ \/ permissions = None
       \/ \E p \in UserPermissions : permissions = Some(p)
    /\ tool_run = NoToolRun
    /\ EngineIdle
    /\ elapsed = 0
    /\ RegistryIdle
    /\ ClientIdle
    /\ StoreIdle
    /\ HeapIdle

TemplateNames == {"quarterly_analysis", "no_such_template"}

AgentNext ==
    \/ \E confirm \in BOOLEAN : execute_database(confirm)
    \/ \E to \in Recipients : \E copies_match \in BOOLEAN :
          \E confirm \in BOOLEAN : send_email(to, copies_match, confirm)
    \/ scrape_page
    \/ search_web
    \/ crawl_website
    \/ \E template_name \in TemplateNames :
          execute_workflow_template(template_name)

AgentSpec == AgentInit /\ [][AgentNext]_vars

(***************************************************************************)
(* The registry of executions.                                             *)
(***************************************************************************)
SecondsPerHour == 3600
TicksPerHour == SecondsPerHour * TicksPerSecond

\* timedelta(hours=max_age_hours), in ticks.
timedelta_hours(hours) == hours * TicksPerHour

\* int(datetime.now().timestamp()).
timestamp_seconds == wall \div TicksPerSecond

\* The fields of a WorkflowExecution that the registry looks at; running
\* tells that its execute_workflow has not returned or raised yet.
Execution(st, at, run) == [status |-> st, completed_at |-> at, running |-> run]

\* Lines 218-228 of execute_workflow: the new WorkflowExecution is stored
\* under its execution_id, in place of what was stored there, and set in
\* progress before the first await.
store_execution(op, execution_id) ==
    /\ launched < MaxLaunches
    /\ launched' = launched + 1
    /\ active_workflows' =
          [id \in DOMAIN active_workflows \cup {execution_id} |->
              IF id = execution_id THEN Execution("in_progress", None, TRUE)
              ELSE active_workflows[id]]
    /\ last_op' = Op(op, execution_id, 0)
    /\ UNCHANGED <<wall, engine, elapsed, registry, client, agent, heap>>

\* execute_workflow without an execution_id: str(uuid.uuid4()), an id that
\* no earlier call has drawn.
launch_workflow ==
    store_execution("execute_workflow",
                    [prefix |-> "uuid4", n |-> launched + 1])

\* execute_template_workflow: the id is the template id and the second of
\* the launch.
execute_template_workflow(template_id) ==
    store_execution("execute_template_workflow",
                    [prefix |-> template_id, n |-> timestamp_seconds])

\* Lines 239-262 of execute_workflow, for the execution stored under
\* execution_id: the final status and completed_at are written.
WorkflowEnds(execution_id, st) ==
    /\ execution_id \in DOMAIN active_workflows
    /\ active_workflows[execution_id].running
    /\ active_workflows' =
          [active_workflows EXCEPT
              ![execution_id] = Execution(st, Some(wall), FALSE)]
    /\ last_op' = Op("ends", execution_id, 0)
    /\ UNCHANGED <<wall, launched, engine, elapsed, registry, client, agent,
                   heap>>

\* cancel_workflow(execution_id) returning True.
StoreCancel(execution_id) ==
    /\ execution_id \in DOMAIN active_workflows
    /\ active_workflows' =
          [active_workflows EXCEPT
              ![execution_id].status = "cancelled",
              ![execution_id].completed_at = Some(wall)]
    /\ last_op' = Op("cancel_workflow", execution_id, 0)
    /\ UNCHANGED <<wall, launched, engine, elapsed, registry, client, agent,
                   heap>>

\* The test of cleanup_completed_workflows on one execution.
to_remove(execution, cutoff_time) ==
    /\ execution.status \in {"completed", "failed", "cancelled"}
    /\ execution.completed_at # None
    /\ execution.completed_at[1] < cutoff_time

cleanup_completed_workflows(max_age_hours) ==
    /\ active_workflows' =
          [id \in {i \in DOMAIN active_workflows :
                      ~to_remove(active_workflows[i],
                                 wall - timedelta_hours(max_age_hours))} |->
              active_workflows[id]]
    /\ last_op' = Op("cleanup_completed_workflows", NoId, max_age_hours)
    /\ UNCHANGED <<wall, launched, engine, elapsed, registry, client, agent,
                   heap>>

\* Time passes: a tick, or an hour.
TickPasses ==
    /\ wall % TicksPerHour < MaxTicks
    /\ wall' = wall + 1
    /\ last_op' = Op("time passes", NoId, 0)
    /\ UNCHANGED <<active_workflows, launched, engine, elapsed, registry,
                   client, agent, heap>>

HourPasses ==
    /\ wall \div TicksPerHour < MaxHours
    /\ wall' = wall + TicksPerHour
    /\ last_op' = Op("time passes", NoId, 0)
    /\ UNCHANGED <<active_workflows, launched, engine, elapsed, registry,
                   client, agent, heap>>

StoreInit ==
    /\ StoreIdle
    /\ EngineIdle
    /\ elapsed = 0
    /\ RegistryIdle
    /\ ClientIdle
    /\ AgentIdle
    /\ HeapIdle

FinalStatuses == {"completed", "partially_completed", "failed"}

StoreNext ==
    \/ launch_workflow
    \/ \E template_id \in DOMAIN Templates :
          execute_template_workflow(template_id)
    \/ \E execution_id \in DOMAIN active_workflows :
          \E st \in FinalStatuses : WorkflowEnds(execution_id, st)
    \/ \E execution_id \in DOMAIN active_workflows : StoreCancel(execution_id)
    \/ \E max_age_hours \in 0 .. MaxAgeHours :
          cleanup_completed_workflows(max_age_hours)
    \/ TickPasses
    \/ HourPasses

StoreSpec == StoreInit /\ [][StoreNext]_vars

(***************************************************************************)
(* The steps of a definition and the steps of its executions.              *)
(***************************************************************************)
\* A parameter value: a str, or a value of another type (a list, a
\* number) written with the same characters.
Alphabet == {"$", "{", "}", "a"}

Value(str, chars) == [is_str |-> str, chars |-> chars]

Str(chars) == Value(TRUE, chars)

\* value.startswith(prefix), value.endswith(suffix) and value[2:-1].
startswith(chars, prefix) ==
    /\ Len(chars) >= Len(prefix)
    /\ SubSeq(chars, 1, Len(prefix)) = prefix

endswith(chars, suffix) ==
    /\ Len(chars) >= Len(suffix)
    /\ SubSeq(chars, Len(chars) - Len(suffix) + 1, Len(chars)) = suffix

slice_2_to_last(chars) ==
    IF Len(chars) >= 4 THEN SubSeq(chars, 3, Len(chars) - 1) ELSE << >>

substitute_without_endswith(value, parameters) ==
    IF value.is_str /\ startswith(value.chars, <<"$", "{">>)
       THEN IF slice_2_to_last(value.chars) \in DOMAIN parameters
               THEN parameters[slice_2_to_last(value.chars)]
            ELSE value
    ELSE value

\* The body of the inner loop of _apply_runtime_parameters: what the key
\* holds after it.
substitute(value, parameters) ==
    IF /\ value.is_str
       /\ startswith(value.chars, <<"$", "{">>)
       /\ endswith(value.chars, <<"}">>)
       THEN IF slice_2_to_last(value.chars) \in DOMAIN parameters
               THEN parameters[slice_2_to_last(value.chars)]
            ELSE value
    ELSE value

\* A WorkflowStep object: parameters and depends_on are the addresses of
\* its dict and of its list.
StepObject(id, dict, list, retries) ==
    [step_id |-> id, parameters |-> dict, depends_on |-> list,
     max_retries |-> retries, status |-> "pending", result |-> "None",
     error |-> "None", retry_count |-> 0]

\* The steps create_workflow stored: n steps in a chain, each with the
\* parameters p and q.
StoredSteps(n, retries) ==
    [i \in 1 .. n |-> StepObject(IdOrder[i], i, i, retries)]

StoredDicts(n, p) ==
    [i \in 1 .. n |->
        [k \in {"p", "q"} |->
            IF k = "p" THEN p ELSE Str(<<"$", "{", "a", "}">>)]]

StoredLists(n) ==
    [i \in 1 .. n |-> IF i = 1 THEN << >> ELSE <<IdOrder[i - 1]>>]

\* The parameters argument of execute_workflow: none, a, a and b (a is
\* itself a placeholder), or the empty name.
RuntimeParameters ==
    {<< >>,
     [name \in {<<"a">>} |-> Str(<<"a", "a">>)],
     [name \in {<<"a">>, <<"b">>} |->
         IF name = <<"a">> THEN Str(<<"$", "{", "b", "}">>)
         ELSE Value(FALSE, <<"a">>)],
     [name \in {<< >>} |-> Str(<<"}">>)]}

apply_runtime_parameters_sharing_the_steps(e, parameters) ==
    /\ execution_steps[e] = << >>
    /\ execution_steps' = [execution_steps EXCEPT ![e] = definition_steps]
    /\ runtime_parameters' = [runtime_parameters EXCEPT ![e] = parameters]
    /\ tool_parameters' =
          [tool_parameters EXCEPT ![e] = [i \in DOMAIN definition_steps |-> << >>]]
    /\ dict_heap' =
          [a \in DOMAIN dict_heap |->
              [k \in DOMAIN dict_heap[a] |->
                  substitute(dict_heap[a][k], parameters)]]
    /\ UNCHANGED <<step_heap, list_heap, definition_steps, engine, elapsed,
                   registry, client, agent, store>>

\* Line 231 of execute_workflow for execution e: _apply_runtime_parameters
\* builds a new WorkflowStep for every step of the definition, with a copy
\* of its parameters dict, in which the placeholders are replaced, and a
\* copy of its depends_on list.
apply_runtime_parameters(e, parameters) ==
    /\ execution_steps[e] = << >>
    /\ LET n == Len(definition_steps)
           base == Len(step_heap)
           src(a) == step_heap[definition_steps[a - base]]
       IN /\ step_heap' =
                [a \in 1 .. base + n |->
                    IF a <= base THEN step_heap[a]
                    ELSE StepObject(src(a).step_id, a, a, src(a).max_retries)]
          /\ dict_heap' =
                [a \in 1 .. base + n |->
                    IF a <= base THEN dict_heap[a]
                    ELSE [k \in DOMAIN dict_heap[src(a).parameters] |->
                             substitute(dict_heap[src(a).parameters][k],
                                        parameters)]]
          /\ list_heap' =
                [a \in 1 .. base + n |->
                    IF a <= base THEN list_heap[a]
                    ELSE list_heap[src(a).depends_on]]
          /\ execution_steps' =
                [execution_steps EXCEPT ![e] = [i \in 1 .. n |-> base + i]]
          /\ tool_parameters' =
                [tool_parameters EXCEPT ![e] = [i \in 1 .. n |-> << >>]]
    /\ runtime_parameters' = [runtime_parameters EXCEPT ![e] = parameters]
    /\ UNCHANGED <<definition_steps, engine, elapsed, registry, client, agent,
                   store>>

\* The step object of execution e with the given step_id.
StepAddress(e, id) ==
    CHOOSE a \in Range(execution_steps[e]) : step_heap[a].step_id = id

\* _execute_step of execution e on its i-th step, up to the await of the
\* tool call: the loops start a step when the steps it depends on are
\* completed and no step has failed.
StepCall(e, i) ==
    /\ i \in DOMAIN execution_steps[e]
    /\ LET a == execution_steps[e][i]
       IN /\ step_heap[a].status = "pending"
          /\ \A b \in Range(execution_steps[e]) :
                step_heap[b].status # "failed"
          /\ \A j \in DOMAIN list_heap[step_heap[a].depends_on] :
                step_heap[StepAddress(e,
                    list_heap[step_heap[a].depends_on][j])].status =
                        "completed"
          /\ step_heap' = [step_heap EXCEPT ![a].status = "running"]
          /\ tool_parameters' =
                [tool_parameters EXCEPT
                    ![e][i] = dict_heap[step_heap[a].parameters]]
    /\ UNCHANGED <<dict_heap, list_heap, definition_steps, execution_steps,
                   runtime_parameters, engine, elapsed, registry, client,
                   agent, store>>

\* The awaited tool call of the step returns or raises: the rest of the
\* attempt.  A step that has retries left sleeps and calls the tool again
\* with the same parameters.
StepOutcome(e, i, success) ==
    /\ i \in DOMAIN execution_steps[e]
    /\ LET a == execution_steps[e][i]
           step == step_heap[a]
           attempt_no == IF step.error = "None" THEN 0
                         ELSE step.retry_count + 1
       IN /\ step.status = "running"
          /\ step_heap' =
                [step_heap EXCEPT
                    ![a] = IF success
                              THEN [step EXCEPT !.result = "data",
                                                !.status = "completed"]
                           ELSE [step EXCEPT
                                    !.retry_count = attempt_no,
                                    !.error = "error",
                                    !.status =
                                        IF attempt_no < step.max_retries
                                           THEN "running" ELSE "failed"]]
    /\ UNCHANGED <<dict_heap, list_heap, definition_steps, execution_steps,
                   runtime_parameters, tool_parameters, engine, elapsed,
                   registry, client, agent, store>>

\* A definition of n steps is stored, whose parameter p is the value p.
HeapInit(n, p, retries) ==
    /\ step_heap = StoredSteps(n, retries)
    /\ dict_heap = StoredDicts(n, p)
    /\ list_heap = StoredLists(n)
    /\ definition_steps = [i \in 1 .. n |-> i]
    /\ execution_steps = [e \in Executions |-> << >>]
    /\ runtime_parameters = [e \in Executions |-> << >>]
    /\ tool_parameters = [e \in Executions |-> << >>]
    /\ EngineIdle
    /\ elapsed = 0
    /\ RegistryIdle
    /\ ClientIdle
    /\ AgentIdle
    /\ StoreIdle

\* Executions of one definition that run at the same time.
CopyInit ==
    \E p \in {Str(<<"$", "{", "a", "}">>), Str(<<"a">>)} :
        \E retries \in 0 .. MaxRetries : HeapInit(MaxSteps, p, retries)

CopyNext ==
    \/ \E e \in Executions : \E parameters \in RuntimeParameters :
          apply_runtime_parameters(e, parameters)
    \/ \E e \in Executions : \E i \in 1 .. MaxSteps : StepCall(e, i)
    \/ \E e \in Executions : \E i \in 1 .. MaxSteps :
          \E success \in BOOLEAN : StepOutcome(e, i, success)

CopySpec == CopyInit /\ [][CopyNext]_vars

\* One execution of a one-step definition whose parameter p is any value.
SubstInit ==
    \E str \in BOOLEAN : \E n \in 0 .. MaxLen :
        \E chars \in [1 .. n -> Alphabet] :
            HeapInit(1, Value(str, chars), 0)

SubstNext ==
    \/ \E parameters \in RuntimeParameters :
          apply_runtime_parameters(1, parameters)
    \/ StepCall(1, 1)
    \/ \E success \in BOOLEAN : StepOutcome(1, 1, success)

SubstSpec == SubstInit /\ [][SubstNext]_vars

(***************************************************************************)
(* Vocabulary of the properties.                                           *)
(***************************************************************************)
\* execute_workflow has returned the execution or raised.
Finished == pc \in {"returned", "raised"}

\* _execute_step of s has ended by raising: s failed after its retries.
FailedAfterRetries(s) == task[s] = "raised"

AllRaised(s) == \A i \in DOMAIN history[s] : history[s][i] = "raise"

AllSucceeded(s) == \A i \in DOMAIN history[s] : history[s][i] = "success"

RECURSIVE DependencyClosure(_)
DependencyClosure(S) ==
    LET more == S \cup UNION {StepOf(x).depends_on : x \in S}
    IN  IF more = S THEN S ELSE DependencyClosure(more)

\* The steps s depends on, directly or transitively.
Upstream(s) == DependencyClosure(StepOf(s).depends_on)

\* The ready step that comes first in the definition's step list.
FirstReady ==
    Steps[CHOOSE i \in DOMAIN Steps :
            /\ Steps[i].step_id \in Ready
            /\ \A j \in 1 .. (i - 1) : Steps[j].step_id \notin Ready].step_id

IsDiamond == \E r \in RetryChoices : Steps = DiamondSteps(r)

(***************************************************************************)
(* Properties.                                                             *)
(***************************************************************************)
\* C1: for every valid definition, in both modes and for every pattern of
\* tool outcomes, execute_workflow eventually returns or raises.
C1_Terminates == <>Finished

\* C2: when execute_workflow has finished, every step id of the definition
\* is in exactly one of completed_steps and failed_steps.
C2_EveryStepResolved ==
    Finished =>
        \A s \in Ids : Count(completed_steps, s) + Count(failed_steps, s) = 1

\* C3: if step a failed after exhausting its retries and step b depends on
\* a, directly or transitively, then when the execution has finished b is
\* in failed_steps and the tool of b was never invoked.
C3_CascadingFailure ==
    Finished =>
        \A a \in Ids : \A b \in Ids :
            (FailedAfterRetries(a) /\ a \in Upstream(b)) =>
                (Contains(failed_steps, b) /\ tool_calls[b] = 0)

\* C4: when a step has failed after exhausting its retries, execute_workflow
\* does not raise: it returns the execution record.
C4_StepFailureNotRaised ==
    (Finished /\ \E s \in Ids : FailedAfterRetries(s)) =>
        (pc = "returned" /\ exc = "none")

\* C5: with at least one step failed after its retries and at least one
\* step completed the execution ends partially-completed and is returned;
\* for quarterly_analysis with only the email step failing, completed_steps
\* holds the first three ids and failed_steps is exactly [email_report].
C5_PartialFailure ==
    /\ (/\ Finished
        /\ \E s \in Ids : FailedAfterRetries(s)
        /\ completed_steps # << >>) =>
            (status = "partially_completed" /\ pc = "returned")
    /\ (/\ Finished
        /\ wf = quarterly_analysis
        /\ FailedAfterRetries("email_report")
        /\ \A s \in Ids \ {"email_report"} : AllSucceeded(s)) =>
            /\ completed_steps =
                 <<"fetch_sales_data", "analyze_trends", "generate_report">>
            /\ failed_steps = <<"email_report">>

\* C6: if no step completed and at least one step failed, the execution
\* ends with status failed, in both modes.
C6_NoneCompletedIsFailed ==
    (Finished /\ completed_steps = << >> /\ failed_steps # << >>) =>
        status = "failed"

\* C7: if every tool invocation succeeded, execute_workflow returns an
\* execution with status completed, every step id exactly once in
\* completed_steps (the four template ids in definition order for
\* quarterly_analysis), no failed step and progress 100.
C7_AllSucceed ==
    (Finished /\ \A s \in Ids : AllSucceeded(s)) =>
        /\ pc = "returned"
        /\ status = "completed"
        /\ \A s \in Ids : Count(completed_steps, s) = 1
        /\ Len(completed_steps) = Len(Steps)
        /\ failed_steps = << >>
        /\ progress_percentage.num = 100 * progress_percentage.den
        /\ wf = quarterly_analysis =>
             completed_steps = [i \in DOMAIN Steps |-> Steps[i].step_id]

\* C8: a step is never started, and its tool never invoked, before every
\* step it depends on is in completed_steps; in the parallel diamond D is
\* started only after both B and C have ended.
C8_DependenciesFirst ==
    /\ \A s \in Ids :
         (task[s] # "none" \/ tool_calls[s] > 0) =>
            \A dep \in StepOf(s).depends_on :
                Contains(completed_steps, dep) /\ task[dep] = "returned"
    /\ (IsDiamond /\ wf.parallel_execution /\ task["D"] # "none") =>
         (task["B"] = "returned" /\ task["C"] = "returned")

\* B and C of the parallel diamond are in flight at the same time.
C8_Witness ==
    /\ IsDiamond
    /\ wf.parallel_execution
    /\ task["B"] = "calling"
    /\ task["C"] = "calling"

\* C9: in sequential mode the step the loop starts is the ready step that
\* comes first in the definition's step list.
C9_DefinitionOrder ==
    [][(pc = "seq_loop" /\ pc' = "seq_step") => current_step' = FirstReady]_vars

\* C10: a step with max_retries = n whose tool raises on every attempt has
\* its tool invoked exactly n+1 times; it is then marked failed and is in
\* failed_steps once, and it is never marked failed before the n+1 attempts
\* are used.
C10_RetryBudget ==
    \A s \in Ids :
        LET n == StepOf(s).max_retries
            ended == task[s] \in {"returned", "raised"}
        IN  /\ AllRaised(s) => tool_calls[s] <= n + 1
            /\ (AllRaised(s) /\ ended) =>
                 (tool_calls[s] = n + 1 /\ Len(history[s]) = n + 1)
            /\ (AllRaised(s) /\ ended /\ n >= 0) =>
                 /\ step_status[s] = "failed"
                 /\ Count(failed_steps, s) = 1
                 /\ task[s] = "raised"
            /\ step_status[s] = "failed" =>
                 (AllRaised(s) /\ Len(history[s]) = n + 1)

\* The first template step, max_retries 3, has failed after 4 invocations.
C10_Witness ==
    /\ wf = quarterly_analysis
    /\ tool_calls["fetch_sales_data"] = 4
    /\ AllRaised("fetch_sales_data")
    /\ failed_steps = <<"fetch_sales_data">>

\* The terminal values of WorkflowStatus.
TerminalStatus == {"completed", "failed", "partially_completed", "cancelled"}

\* p <= q for two progress values.
ProgressLE(p, q) == p.num * q.den <= q.num * p.den

\* C11: progress_percentage never decreases from one update to the next,
\* stays within 0..100, and is 100 whenever the status is terminal, also
\* when steps have failed.
C11_Progress ==
    /\ [][ProgressLE(progress_percentage, progress_percentage')]_vars
    /\ [](/\ ProgressLE(Percentage(0, 1), progress_percentage)
          /\ ProgressLE(progress_percentage, Percentage(1, 1))
          /\ status \in TerminalStatus =>
               progress_percentage.num = 100 * progress_percentage.den)

\* C14: once cancel_workflow has returned True for an execution in
\* progress, no further step of it is started: a step whose _execute_step
\* had not been called or scheduled stays so.
C14_NoStepAfterCancel ==
    [][(status = "cancelled" /\ ~Finished) =>
          \A s \in Ids : task[s] = "none" => task'[s] = "none"]_vars

\* C15: a terminal status is never changed to a different value, neither
\* by the engine finishing its run nor by cancel_workflow.
C15_TerminalIsFinal ==
    [][(status \in TerminalStatus) => (status' = status)]_vars

\* C16: an execution that has run longer than timeout_minutes of its
\* definition is not in progress any more: it is marked failed and
\* execute_workflow has raised WorkflowTimeoutError.
C16_Timeout ==
    elapsed > wf.timeout_minutes =>
        (status = "failed" /\ pc = "raised" /\ exc = "WorkflowTimeoutError")

\* ids shared by two steps of the list.
HasDuplicateIds(steps) ==
    \E i \in DOMAIN steps : \E j \in DOMAIN steps :
        i # j /\ steps[i].step_id = steps[j].step_id

\* A step depends on an id that is no step of the list.
HasDanglingDependency(steps) ==
    \E i \in DOMAIN steps :
        \E dep \in steps[i].depends_on : dep \notin StepIdsOf(steps)

RECURSIVE DependsOnClosure(_, _)
DependsOnClosure(steps, S) ==
    LET more == S \cup UNION {steps[i].depends_on :
                                 i \in {k \in DOMAIN steps : steps[k].step_id \in S}}
    IN  IF more = S THEN S ELSE DependsOnClosure(steps, more)

\* The depends_on graph of the list has a cycle: some step depends on
\* itself, directly or through other steps.
HasCycle(steps) ==
    \E i \in DOMAIN steps :
        steps[i].step_id \in DependsOnClosure(steps, steps[i].depends_on)

\* C12: for a list of steps with unique ids and no dangling dependency,
\* create_workflow raises WorkflowDependencyError exactly when the
\* depends_on graph has a cycle and accepts the list otherwise; no
\* registered definition, and none handed to the loops by
\* execute_workflow, has a cycle.
C12_CycleDetection ==
    /\ (/\ create_result # "pending"
        /\ ~HasDuplicateIds(create_call.steps)
        /\ ~HasDanglingDependency(create_call.steps)) =>
           /\ create_result = "WorkflowDependencyError"
                  <=> HasCycle(create_call.steps)
           /\ ~HasCycle(create_call.steps) => create_result = "ok"
    /\ \A id \in DOMAIN workflow_definitions :
           ~HasCycle(workflow_definitions[id].steps)
    /\ workflow_def.outcome = "found" => ~HasCycle(workflow_def.steps)

\* The cycle A, B, C, A, with unique ids and no dangling dependency, has
\* been rejected with WorkflowDependencyError and is not registered.
C12_Witness ==
    /\ create_call.steps \in CycleSteps
    /\ create_result = "WorkflowDependencyError"
    /\ \A id \in DOMAIN workflow_definitions :
           workflow_definitions[id].steps # create_call.steps

\* C13: create_workflow called with two steps of the same id, or with a
\* dependency on an id that is no step, raises and leaves
\* workflow_definitions as it was; no such definition is ever registered
\* or handed to the loops by execute_workflow.
C13_RejectedNotRegistered ==
    /\ [][(/\ create_result = "pending"
            /\ create_result' # "pending"
            /\ \/ HasDuplicateIds(create_call.steps)
               \/ HasDanglingDependency(create_call.steps)) =>
              (/\ create_result' \in {"WorkflowError", "WorkflowDependencyError"}
               /\ workflow_definitions' = workflow_definitions)]_vars
    /\ [](/\ \A id \in DOMAIN workflow_definitions :
               /\ ~HasDuplicateIds(workflow_definitions[id].steps)
               /\ ~HasDanglingDependency(workflow_definitions[id].steps)
          /\ workflow_def.outcome = "found" =>
               /\ ~HasDuplicateIds(workflow_def.steps)
               /\ ~HasDanglingDependency(workflow_def.steps))

\* A call with a dangling dependency and unique ids has raised, the
\* definition registered earlier under the same workflow_id is still
\* there, and execute_workflow has been handed that earlier definition.
C13_Witness ==
    /\ HasDanglingDependency(create_call.steps)
    /\ ~HasDuplicateIds(create_call.steps)
    /\ create_result = "WorkflowDependencyError"
    /\ create_call.workflow_id \in DOMAIN workflow_definitions
    /\ workflow_def.outcome = "found"
    /\ workflow_def.steps = ChainSteps

\* The exception classes of mcp_client: all derive from MCPError.
MCPErrors ==
    {"MCPError", "MCPAuthError", "MCPToolError", "MCPTimeoutError",
     "MCPRateLimitError", "MCPServerError"}

\* The post of c has been answered by n in this step.
Answered(c, n) ==
    /\ call[c].pc = "posting"
    /\ call'[c].pc # "posting"
    /\ call'[c].response = n

\* C17: a request answered by HTTP 401 makes call_tool raise MCPAuthError
\* in the same step, with no backoff sleep and no further request,
\* whatever is left of the retry budget.
C17_AuthErrorRaisedAtOnce ==
    [][\A c \in Callers :
          Answered(c, "http_401") =>
              (call'[c].pc = "raised" /\ call'[c].result = "MCPAuthError")]_vars

\* The answers after which call_tool retries until its budget is used up.
Retryable == {"http_429", "http_5xx", "timeout", "connect_error"}

\* The budget of an invocation: the retry_count argument when one is
\* passed, the configured retry_count otherwise.
BudgetOf(c) ==
    IF call[c].arg = None THEN client_retry_count ELSE call[c].arg[1]

\* C18: an invocation (retry_count omitted or >= 0) all of whose requests
\* are answered by 429, 5xx, a timeout or a connection error never sends
\* more than budget+1 requests, never returns, and when it ends it has
\* sent exactly budget+1 requests and raises an MCPError.
C18_RetryBudget ==
    \A c \in Callers :
        (/\ call[c].pc # "idle"
         /\ call[c].arg = None \/ call[c].arg[1] >= 0
         /\ call[c].answers \subseteq Retryable) =>
            /\ call[c].requests <= BudgetOf(c) + 1
            /\ call[c].pc # "returned"
            /\ call[c].pc = "raised" =>
                  /\ call[c].requests = BudgetOf(c) + 1
                  /\ call[c].result \in MCPErrors

\* The tool-level failures: a JSON-RPC error object in a 200 response, or
\* a 4xx status other than 401 and 429.
ToolLevelFailures ==
    {"rpc_method_not_found", "rpc_error", "http_4xx", "http_4xx_not_object"}

\* C19: a request answered by a tool-level failure makes call_tool return
\* an MCPResponse with success=False and status FAILED in the same step:
\* it does not raise and sends no further request.
C19_ToolFailureReturned ==
    [][\A c \in Callers : \A n \in ToolLevelFailures :
          Answered(c, n) =>
              (call'[c].pc = "returned" /\ call'[c].result = "FAILED")]_vars

\* C20: any two requests of the client, whatever invocations they belong
\* to, are posted at least min_interval apart.
C20_RateLimit ==
    \A i \in DOMAIN send_times : \A j \in DOMAIN send_times :
        i < j => send_times[j] - send_times[i] >= min_interval

\* C23: in every state of an execution, in both modes, no step id is in
\* both completed_steps and failed_steps, and neither list holds an id
\* twice.
C23_DisjointNoDuplicates ==
    \A s \in Ids :
        /\ Count(completed_steps, s) <= 1
        /\ Count(failed_steps, s) <= 1
        /\ ~(Contains(completed_steps, s) /\ Contains(failed_steps, s))

\* A finished parallel execution with a completed step and a failed step.
C23_Witness ==
    /\ wf.parallel_execution
    /\ pc = "returned"
    /\ completed_steps # << >>
    /\ failed_steps # << >>

\* C25: a step id is in completed_steps only when the response of its last
\* tool call reported success; a response with success=False does not
\* complete the step.
C25_CompletedOnlyOnSuccess ==
    \A s \in Ids :
        Contains(completed_steps, s) =>
            /\ history[s] # << >>
            /\ history[s][Len(history[s])] = "success"

\* C26: in sequential mode, whenever steps remain and none of them is
\* ready, some remaining step depends on a step of failed_steps, so that
\* the loop never raises "No ready steps found".
C26_NoStructuralError ==
    (pc = "seq_loop" /\ remaining_steps # {} /\ Ready = {}) =>
        \E s \in remaining_steps :
            \E dep \in StepOf(s).depends_on : Contains(failed_steps, dep)

\* C27: every step id of failed_steps has an entry in errors: the error of
\* its last tool call when the step failed on its own call, a message
\* about the upstream failure when it was marked failed for a failed
\* dependency.
C27_FailedHasError ==
    \A s \in Ids :
        Contains(failed_steps, s) =>
            /\ s \in DOMAIN errors
            /\ errors[s] = IF FailedAfterRetries(s) THEN "tool_error"
                           ELSE "upstream_failed"

\* A step has failed on its own tool call after a retry, next to a step
\* that completed.
C27_Witness ==
    \E s \in Ids :
        /\ Contains(failed_steps, s)
        /\ Len(history[s]) >= 2
        /\ completed_steps # << >>

\* C30: when every call_tool invoked so far has returned or raised,
\* successful_requests + failed_requests = total_requests.
C30_MetricsAddUp ==
    (\A c \in Callers : call[c].pc \in {"idle", "returned", "raised"}) =>
        metrics.successful_requests + metrics.failed_requests
            = metrics.total_requests

\* The permission each gated tool is matched with.
MatchingPermission ==
    [execute_database |-> "can_write_database",
     send_email |-> "can_send_email",
     scrape_page |-> "can_scrape_web",
     search_web |-> "can_scrape_web",
     crawl_website |-> "can_scrape_web",
     execute_workflow_template |-> "can_execute_workflows"]

\* C22: a gated tool that made a remote invocation ran in a session that
\* has a permissions object with the matching flag set, and for
\* execute_database and send_email it was called with confirm=True.
C22_GatedTools ==
    tool_run.remote # "none" =>
        /\ permissions # None
        /\ permissions[1][MatchingPermission[tool_run.tool]]
        /\ tool_run.tool \in {"execute_database", "send_email"} =>
               tool_run.confirm

\* An email was sent by a session limited to a domain.
C22_Witness ==
    /\ tool_run = [tool |-> "send_email", confirm |-> TRUE,
                   remote |-> "sendEmail"]
    /\ permissions # None
    /\ permissions[1].allowed_email_domains # << >>
    /\ ~permissions[1].can_write_database

\* A status after which an execution does not go on.
TerminalStatuses == {"completed", "failed", "partially_completed", "cancelled"}

\* The execution is terminal and its completed_at is older than hours.
OldAndTerminal(execution, hours) ==
    /\ execution.status \in TerminalStatuses
    /\ execution.completed_at # None
    /\ execution.completed_at[1] < wall - hours * TicksPerHour

\* C21: a cleanup with max_age removes exactly the executions that are
\* terminal (completed, failed, partially completed or cancelled) with a
\* completed_at older than max_age, and leaves every other execution as it
\* was.
C21_Cleanup ==
    [][(last_op'.op = "cleanup_completed_workflows") =>
          active_workflows' =
             [id \in {i \in DOMAIN active_workflows :
                         ~OldAndTerminal(active_workflows[i],
                                         last_op'.max_age_hours)} |->
                 active_workflows[id]]]_vars

\* C28: the execution id of a launch is not a key of active_workflows
\* when the launch stores its execution.
C28_FreshExecutionId ==
    [][(last_op'.op \in {"execute_workflow", "execute_template_workflow"}) =>
          last_op'.execution_id \notin DOMAIN active_workflows]_vars

\* The fields of the definition's steps, read through the heap.
StoredView ==
    [i \in DOMAIN definition_steps |->
        LET step == step_heap[definition_steps[i]]
        IN [status |-> step.status, result |-> step.result,
            error |-> step.error, retry_count |-> step.retry_count,
            depends_on |-> list_heap[step.depends_on],
            parameters |-> dict_heap[step.parameters]]]

\* The objects an execution works on, or the definition holds: the steps,
\* their dicts and their lists.
ObjectsOf(steps) ==
    [steps |-> Range(steps),
     dicts |-> {step_heap[a].parameters : a \in Range(steps)},
     lists |-> {step_heap[a].depends_on : a \in Range(steps)}]

Disjoint(x, y) ==
    /\ x.steps \cap y.steps = {}
    /\ x.dicts \cap y.dicts = {}
    /\ x.lists \cap y.lists = {}

\* C24: no step of execute_workflow changes the status, result, error,
\* retry_count, depends_on or parameters of the definition's steps, and
\* the steps (with their parameters and depends_on) an execution works on
\* are objects of its own, shared neither with the definition nor with
\* another execution.
C24_DefinitionUntouched ==
    /\ [][StoredView' = StoredView]_vars
    /\ [](\A e \in Executions :
            /\ Disjoint(ObjectsOf(execution_steps[e]),
                        ObjectsOf(definition_steps))
            /\ \A f \in Executions \ {e} :
                  Disjoint(ObjectsOf(execution_steps[e]),
                           ObjectsOf(execution_steps[f])))

\* Two executions are under way, a placeholder was replaced in one of them
\* and a step of the other has failed.
C24_Witness ==
    /\ \A e \in Executions : execution_steps[e] # << >>
    /\ \E e \in Executions : \E a \in Range(execution_steps[e]) :
          /\ step_heap[a].status = "completed"
          /\ dict_heap[step_heap[a].parameters] #
                dict_heap[step_heap[definition_steps[1]].parameters]
    /\ \E e \in Executions : \E a \in Range(execution_steps[e]) :
          step_heap[a].status = "failed" /\ step_heap[a].retry_count > 0

\* The value is a string of the form ${name}.
IsPlaceholder(value, name) ==
    value.is_str /\ value.chars = <<"$", "{">> \o name \o <<"}">>

\* C29: the parameters a step's tool call is given are those of the
\* definition's step, where a value is replaced by parameters[name]
\* exactly when it is a string of the form ${name} with name a key of the
\* runtime parameters, and is the stored value otherwise.
C29_Substitution ==
    \A e \in Executions : \A i \in DOMAIN tool_parameters[e] :
        tool_parameters[e][i] # << >> =>
            LET stored == dict_heap[step_heap[definition_steps[i]].parameters]
                given == tool_parameters[e][i]
                supplied == runtime_parameters[e]
            IN /\ DOMAIN given = DOMAIN stored
               /\ \A k \in DOMAIN stored :
                     IF \E name \in DOMAIN supplied :
                           IsPlaceholder(stored[k], name)
                        THEN \E name \in DOMAIN supplied :
                                /\ IsPlaceholder(stored[k], name)
                                /\ given[k] = supplied[name]
                     ELSE given[k] = stored[k]

\* A tool call was given a replaced value that is itself a placeholder of
\* a supplied name, next to a value that only starts like a placeholder.
C29_Witness ==
    /\ tool_parameters[1] # << >>
    /\ tool_parameters[1][1] # << >>
    /\ tool_parameters[1][1]["q"] = Str(<<"$", "{", "b", "}">>)
    /\ tool_parameters[1][1]["p"] = Str(<<"$", "{", "a", "a">>)
    /\ <<"b">> \in DOMAIN runtime_parameters[1]

====
